---- MODULE Spec2Model ----
(***************************************************************************)
(* Credential lifecycle and authorization portal of google-cloud-mcp.      *)
(*                                                                         *)
(* The model follows src/google_cloud_mcp/server.py: the credential        *)
(* resolver get_credentials (lines 40-54) and the portal request handler   *)
(* AuthPortalHandler.do_GET (lines 64-127).  The portal is served by a     *)
(* plain HTTPServer on one daemon thread (lines 129-143), so portal        *)
(* requests are handled one at a time; tool invocations run on another     *)
(* thread and call get_credentials at any moment.                          *)
(***************************************************************************)
EXTENDS Integers, Sequences, FiniteSets, TLC

\* ---------------------------------------------------------------- bounds
MaxTime == 2        \* the clock runs over 0..MaxTime
MaxFlows == 2       \* number of flows /login may create
MaxSlides == 2      \* number of slides of the presentation
MaxBoxes == 1       \* number of text boxes a tool adds to one slide

\* ------------------------------------------------------ program constants
AUTH_PORT == 3838

None == "None"               \* Python's None where a string is expected
NoExpiry == << >>            \* a credential without expiry
At(t) == << t >>             \* an expiry at time t

SCOPES ==
  << "gmail.modify", "gmail.labels", "gmail.settings.basic", "drive",
     "calendar", "documents", "spreadsheets", "presentations" >>

Range(s) == { s[i] : i \in DOMAIN s }

CLIENT_ID == "client-id"
CLIENT_SECRET == "client-secret"
CRED_FILE_PATH == "credentials.json"

\* ------------------------------------------------------------- variables
VARIABLES
  now,            \* the clock the credential's expiry is compared with
  envToken,       \* os.getenv('GOOGLE_TOKEN_JSON'): None, Malformed or a record
  tokenFile,      \* content of TOKEN_FILE_PATH: Absent, Truncated or a record
  clientConfig,   \* "inline" (CLIENT_ID and CLIENT_SECRET), "file", "missing"
  flows,          \* every InstalledAppFlow object created so far
  pending_flow,   \* _pending_flow: 0 for None, else an index into flows
  portalPc,       \* position of the portal thread: "idle" or "cb_write"
  response,       \* the last portal request and what the handler answered
  result,         \* the last get_credentials call of a tool and its outcome
  slides,         \* the slides of the remote presentation, in order
  requests,       \* the API requests the last tool invocation issued
  toolPc          \* position of the tool thread: "idle" or "run_local_server"

vars ==
  << now, envToken, tokenFile, clientConfig, flows, pending_flow, portalPc,
     response, result, slides, requests, toolPc >>

\* What lives at Google: the presentation, and the requests sent to the APIs.
remote == << slides, requests >>

\* ------------------------------------------------------- credential object
\* Values of GOOGLE_TOKEN_JSON and contents of the token file.
EnvUnset == [ kind |-> "unset" ]
EnvMalformed == [ kind |-> "malformed" ]     \* json.loads or the constructor raises
FileAbsent == [ kind |-> "absent" ]          \* os.path.exists is false
FileTruncated == [ kind |-> "truncated" ]    \* opened with 'w', nothing written yet
Json(info) == [ kind |-> "json", info |-> info ]

NoCreds == [ kind |-> "None" ]               \* creds = None

\* google.oauth2.credentials.Credentials as get_credentials uses it.
Expired(c, t) == c.expiry # NoExpiry /\ t >= c.expiry[1]

Valid(c, t) == c.token # None /\ ~Expired(c, t)

\* Credentials.from_authorized_user_info(info, SCOPES): the scopes of the
\* credential are the scopes passed in, not the ones the record lists.
FromAuthorizedUserInfo(info, scopes) ==
  [ kind |-> "Credentials", token |-> info.token,
    refresh_token |-> info.refresh_token, expiry |-> info.expiry,
    scopes |-> Range(scopes) ]

\* A serialisation that leaves the access token out.
ToJson_NoToken(c) ==
  [ token |-> None, refresh_token |-> c.refresh_token,
    expiry |-> c.expiry, scopes |-> c.scopes ]

\* A serialisation that leaves the refresh token out.
ToJson_NoRefreshToken(c) ==
  [ token |-> c.token, refresh_token |-> None,
    expiry |-> c.expiry, scopes |-> c.scopes ]

\* Credentials.to_json(): the record written to the token file.
ToJson(c) ==
  [ token |-> c.token, refresh_token |-> c.refresh_token,
    expiry |-> c.expiry, scopes |-> c.scopes ]

\* creds.refresh(Request()) when the provider answers with a token payload p.
Refresh(c, p, t) == [ c EXCEPT !.token = p.token, !.expiry = At(t + p.life) ]

PortalURL == [ host |-> "localhost", port |-> AUTH_PORT ]

\* A message that leaves the remediation path out.
NotAuthenticatedMessage_Bare == [ text |-> "Not authenticated." ]

NotAuthenticatedMessage ==
  [ text |-> "Not authenticated. Please open {url} in your browser to authorize with Google.",
    url |-> PortalURL ]

RefreshErrorMessage == [ text |-> "invalid_grant" ]

JSONDecodeErrorMessage == [ text |-> "Expecting value: line 1 column 1 (char 0)" ]

\* Outcomes of a get_credentials call: a return value or a raised exception.
\* refreshed records whether creds.refresh was called, source which record the
\* credential was built from.
Outcome(kind, creds, message, refreshed, source) ==
  [ kind |-> kind, creds |-> creds, message |-> message,
    refreshed |-> refreshed, source |-> source ]

\* Loading the file whenever it exists, whatever the environment gave.
ShouldLoadFile_Always(creds, file, t) == file # FileAbsent

\* Loading the file only when the environment gave no credential at all.
ShouldLoadFile_OnlyIfNone(creds, file, t) == creds = NoCreds /\ file # FileAbsent

\* Line 46: the token file is loaded when the environment gave no credential
\* or one that is not valid, and the file exists.
ShouldLoadFile(creds, file, t) ==
  (creds = NoCreds \/ ~Valid(creds, t)) /\ file # FileAbsent

\* Refreshing whatever carries a refresh token, expired or not.
ShouldRefresh_AnyTime(creds, t) == creds # NoCreds /\ creds.refresh_token # None

\* Refreshing whatever is expired, with a refresh token or without.
ShouldRefresh_NoTokenTest(creds, t) == creds # NoCreds /\ Expired(creds, t)

\* Line 48: the refresher is called for an expired credential with a refresh token.
ShouldRefresh(creds, t) ==
  creds # NoCreds /\ Expired(creds, t) /\ creds.refresh_token # None

\* Line 50: no credential, or one that is not valid, is reported.
NotAuthenticated(creds, t) == creds = NoCreds \/ ~Valid(creds, t)

\* A value that fails to parse still leaving a credential behind.
FromEnv_KeepsPartial(env) ==
  IF env.kind = "json" THEN FromAuthorizedUserInfo(env.info, SCOPES)
  ELSE IF env.kind = "malformed"
    THEN FromAuthorizedUserInfo(
           [ token |-> "env", refresh_token |-> None, expiry |-> NoExpiry ],
           SCOPES)
  ELSE NoCreds

\* Lines 42-45: the credential built from GOOGLE_TOKEN_JSON; an unset or empty
\* value is skipped and a failure to parse is swallowed.
FromEnv(env) ==
  IF env.kind = "json" THEN FromAuthorizedUserInfo(env.info, SCOPES)
  ELSE NoCreds

\* from_authorized_user_file on a file that holds no bytes raises.
Unreadable == [ kind |-> "JSONDecodeError" ]

\* Lines 41-47: creds before the refresh step.
Resolved(env, file, t) ==
  IF ShouldLoadFile(FromEnv(env), file, t)
    THEN IF file = FileTruncated THEN Unreadable
         ELSE FromAuthorizedUserInfo(file.info, SCOPES)
    ELSE FromEnv(env)

\* Which record creds was built from.
Source(env, file, t) ==
  IF ShouldLoadFile(FromEnv(env), file, t) THEN "file"
  ELSE IF FromEnv(env) = NoCreds THEN "none" ELSE "env"

\* A failed refresh turned into the not-authenticated error.
RefreshFailure_Swallowed(source) ==
  Outcome("RuntimeError", NoCreds, NotAuthenticatedMessage, TRUE, source)

\* creds.refresh(Request()) raising (line 49): nothing catches it inside
\* get_credentials, the exception leaves the function.
RefreshFailure(source) ==
  Outcome("RefreshError", NoCreds, RefreshErrorMessage, TRUE, source)

\* get_credentials() run with GOOGLE_TOKEN_JSON = env, the token file holding
\* file, the clock at t, and a provider that answers a refresh request with p.
get_credentials(env, file, t, p) ==
  LET creds == Resolved(env, file, t)
      source == Source(env, file, t)
  IN
  IF creds = Unreadable
    THEN Outcome("JSONDecodeError", NoCreds, JSONDecodeErrorMessage, FALSE, source)
    ELSE
      LET refresh == ShouldRefresh(creds, t) IN
      IF refresh /\ ~p.ok
        THEN RefreshFailure(source)
        ELSE
          LET final == IF refresh THEN Refresh(creds, p, t) ELSE creds IN
          IF NotAuthenticated(final, t)
            THEN Outcome("RuntimeError", NoCreds, NotAuthenticatedMessage,
                         refresh, source)
            ELSE Outcome("return", final, [ text |-> "" ], refresh, source)

\* ------------------------------------------------------------ the provider
\* Answers of the token endpoint: to a refresh request and to a code exchange.
ProviderTokens == { "xyz" }

Lifetimes == { 1 }    \* expires_in of a token the provider mints

RefreshAnswers == [ ok : BOOLEAN, token : ProviderTokens, life : Lifetimes ]

ExchangeAnswers ==
  [ ok : BOOLEAN, token : ProviderTokens, refresh_token : { "r2" },
    life : Lifetimes ]

\* ------------------------------------------------------------ initial state
PartialScopes == { "gmail.modify", "drive" }

\* Records a token file or GOOGLE_TOKEN_JSON can hold when the process starts.
StoredInfos ==
  [ token : { None, "abc" }, refresh_token : { None, "r1" },
    expiry : { NoExpiry, At(1) }, scopes : { Range(SCOPES) } ]
  \cup
  [ token : { "abc" }, refresh_token : { "r1" },
    expiry : { At(1) }, scopes : { PartialScopes } ]

EnvInfos ==
  [ token : { "env" }, refresh_token : { None, "r0" },
    expiry : { NoExpiry, At(1) }, scopes : { Range(SCOPES) } ]

NoResult == [ kind |-> "none" ]
NoResponse == [ path |-> "none" ]

Init ==
  /\ now = 0
  /\ envToken \in { EnvUnset, EnvMalformed } \cup { Json(i) : i \in EnvInfos }
  /\ tokenFile \in { FileAbsent } \cup { Json(i) : i \in StoredInfos }
  /\ clientConfig \in { "inline", "file", "missing" }
  /\ flows = << >>
  /\ pending_flow = 0
  /\ portalPc = "idle"
  /\ response = NoResponse
  /\ result = NoResult
  /\ slides = << >>
  /\ requests = << >>
  /\ toolPc = "idle"

\* ------------------------------------------------------------------ tools
\* A tool invocation: get_credentials() inside build(...) (e.g. line 151),
\* the remote call, and the tool's except clauses.
Tools == { "get_account_info", "create_gmail_label", "update_spreadsheet" }

\* What the remote API call of a tool does: it answers, or raises HttpError.
ApiOutcomes == { "ok", "HttpError" }

HttpErrorMessage == [ text |-> "<HttpError 403 Forbidden>" ]

\* The string a tool returns: a prefix followed by a body.
Text(prefix, body) == [ type |-> "str", prefix |-> prefix, body |-> body ]

\* The tools with an `except json.JSONDecodeError` clause (lines 386, 406, 478).
JsonTools ==
  { "update_spreadsheet", "append_to_spreadsheet", "batch_update_spreadsheet" }

\* The text of lines 387 and 407, and of line 479.
InvalidJsonMessage(tool) ==
  IF tool = "batch_update_spreadsheet"
    THEN [ text |-> "Invalid JSON. Use format: [{range, values}]" ]
    ELSE [ text |-> "Invalid JSON for values. Use format: [[A,B],[1,2]]" ]

\* The except clauses of a tool, for an exception of the given type and
\* message: lines 154 (get_account_info), 164 (create_gmail_label) and
\* 386-389 (update_spreadsheet, whose first clause takes any JSONDecodeError
\* raised inside the try block).
Handler(tool, type, message) ==
  IF tool \in JsonTools /\ type = "JSONDecodeError"
    THEN Text("", InvalidJsonMessage(tool))
  ELSE IF tool = "get_account_info" THEN Text("Error: ", message)
  ELSE Text("", message)

\* A tool body (lines 150-154, 159-164, 376-389): get_credentials() inside
\* build(...), then the remote call, all inside the try block.
ToolReturn(tool, o, api) ==
  IF o.kind # "return" THEN Handler(tool, o.kind, o.message)
  ELSE IF api = "HttpError" THEN Handler(tool, "HttpError", HttpErrorMessage)
  ELSE Text("", [ text |-> "done" ])

\* One invocation of a tool among `tools`, the remote call answering as one
\* of `apis`.
Invoke(tools, apis) ==
  /\ \E p \in RefreshAnswers, tool \in tools, api \in apis :
       LET o == get_credentials(envToken, tokenFile, now, p) IN
       result' = [ call |-> o,
                   env |-> envToken, file |-> tokenFile, at |-> now,
                   kind |-> "called", tool |-> tool,
                   api |-> IF o.kind = "return" THEN api ELSE "none",
                   returned |-> ToolReturn(tool, o, api) ]
  /\ UNCHANGED << remote, toolPc >>
  /\ UNCHANGED << now, envToken, tokenFile, clientConfig, flows, pending_flow,
                  portalPc, response >>

\* create_gmail_label (lines 156-164) with the remote call answering.
ToolCall == Invoke({ "create_gmail_label" }, { "ok" })

\* A tool call that saves the credential it refreshed.
ToolInvoke_Persisting ==
  /\ \E p \in RefreshAnswers, tool \in Tools, api \in ApiOutcomes :
       LET o == get_credentials(envToken, tokenFile, now, p) IN
       /\ result' = [ call |-> o,
                      env |-> envToken, file |-> tokenFile, at |-> now,
                      kind |-> "called", tool |-> tool,
                      api |-> IF o.kind = "return" THEN api ELSE "none",
                      returned |-> ToolReturn(tool, o, api) ]
       /\ tokenFile' = IF o.kind = "return" /\ o.refreshed
                         THEN Json(ToJson(o.creds)) ELSE tokenFile
  /\ UNCHANGED << remote, toolPc >>
  /\ UNCHANGED << now, envToken, clientConfig, flows, pending_flow,
                  portalPc, response >>

\* Any tool, the remote call answering or raising.
ToolInvoke == Invoke(Tools, ApiOutcomes)

Tick ==
  /\ now < MaxTime
  /\ portalPc = "idle"
  /\ now' = now + 1
  /\ UNCHANGED << remote, toolPc >>
  /\ UNCHANGED << envToken, tokenFile, clientConfig, flows, pending_flow,
                  portalPc, response, result >>

\* ----------------------------------------------------- authorization flow
RedirectUri == [ host |-> "localhost", port |-> AUTH_PORT, path |-> "/callback" ]

\* InstalledAppFlow.from_client_config(config, SCOPES, redirect_uri=...)
from_client_config(client_id, client_secret, scopes, redirect_uri) ==
  [ client_id |-> client_id, client_secret |-> client_secret,
    scopes |-> scopes, redirect_uri |-> redirect_uri,
    state |-> "Created", credentials |-> NoCreds ]

\* InstalledAppFlow.from_client_secrets_file(CRED_FILE_PATH, SCOPES, ...): the
\* client identity is the one the file holds.
from_client_secrets_file(path, scopes, redirect_uri) ==
  [ client_id |-> "id-of-" \o path, client_secret |-> "secret-of-" \o path,
    scopes |-> scopes, redirect_uri |-> redirect_uri,
    state |-> "Created", credentials |-> NoCreds ]

\* flow.authorization_url(prompt=..., access_type=...): the consent URL.
authorization_url(flow, prompt, access_type) ==
  [ auth_uri |-> "https://accounts.google.com/o/oauth2/auth",
    response_type |-> "code", client_id |-> flow.client_id,
    redirect_uri |-> flow.redirect_uri, scope |-> flow.scopes,
    prompt |-> prompt, access_type |-> access_type ]

NoUrl == [ auth_uri |-> None ]

\* flow.fetch_token(code=code) when the provider answers with a token payload p.
fetch_token(flow, p, t) ==
  [ flow EXCEPT
      !.state = "Exchanged",
      !.credentials =
        [ kind |-> "Credentials", token |-> p.token,
          refresh_token |-> p.refresh_token, expiry |-> At(t + p.life),
          scopes |-> Range(flow.scopes) ] ]

\* ----------------------------------------------------------------- portal
\* What the handler answered: status 0 stands for no response at all, raised
\* for an exception that left do_GET, fetched for the flow fetch_token was
\* called on (0: not called).
Response(path, code, status, page, link, location, raised, fetched) ==
  [ path |-> path, code |-> code, status |-> status, page |-> page,
    link |-> link, location |-> location, raised |-> raised,
    fetched |-> fetched ]

\* Query strings of a /callback request, as lists of key=value parameters.
Queries ==
  { << >>,
    << << "state", "s1" >> >>,
    << << "code", "" >> >>,
    << << "code", "c1" >> >>,
    << << "code", "" >>, << "state", "s1" >> >>,
    << << "state", "s1" >>, << "code", "c1" >> >>,
    << << "code", "" >>, << "code", "c1" >> >> }

\* parse_qs(urlparse(self.path).query).get('code', [None])[0]: parse_qs drops
\* parameters with a blank value, and the first remaining value is taken.
RECURSIVE CodeOf(_)
CodeOf(q) ==
  IF q = << >> THEN None
  ELSE IF Head(q)[1] = "code" /\ Head(q)[2] # "" THEN Head(q)[2]
  ELSE CodeOf(Tail(q))

\* An error page that sends the user back to the status page.
ErrorPage_LinkHome(code, message, fetched) ==
  Response("/callback", code, 500, message, "/", NoUrl, None, fetched)

\* The error page of lines 118-127.
ErrorPage(code, message, fetched) ==
  Response("/callback", code, 500, message, "/login", NoUrl, None, fetched)

\* The status page without the try/except of lines 69-73: an exception of
\* get_credentials leaves the handler and nothing is sent.
RootResponse_NoCatch(o, t) ==
  IF o.kind = "return"
    THEN Response("/", None, 200,
                  IF Valid(o.creds, t) THEN "Authenticated"
                  ELSE "Not Authenticated",
                  "/login", NoUrl, None, 0)
    ELSE Response("/", None, 0, "", "", NoUrl, o.kind, 0)

\* Lines 69-85: the status page for the outcome o of get_credentials; any
\* exception counts as not authenticated.
RootResponse(o, t) ==
  LET ok == o.kind = "return" /\ Valid(o.creds, t) IN
  Response("/", None, 200,
           IF ok THEN "Authenticated" ELSE "Not Authenticated",
           "/login", NoUrl, None, 0)

\* GET /  (lines 68-85)
Root ==
  /\ portalPc = "idle"
  /\ \E p \in RefreshAnswers :
       response' = RootResponse(get_credentials(envToken, tokenFile, now, p), now)
  /\ UNCHANGED << remote, toolPc >>
  /\ UNCHANGED << now, envToken, tokenFile, clientConfig, flows, pending_flow,
                  portalPc, result >>

\* Lines 88-95: the flow /login builds from the configured client identity.
LoginFlow(config) ==
  IF config = "inline"
    THEN from_client_config(CLIENT_ID, CLIENT_SECRET, SCOPES, RedirectUri)
    ELSE from_client_secrets_file(CRED_FILE_PATH, SCOPES, RedirectUri)

\* The consent URL with the library's defaults: no offline access, no forced
\* consent screen.
LoginUrl_Defaults(flow) == authorization_url(flow, None, None)

\* Line 96: the consent URL /login redirects to.
LoginUrl(flow) == authorization_url(flow, "consent", "offline")

\* An assignment that keeps a flow that is already pending.
NewPending_KeepOld(old, created) == IF old = 0 THEN created ELSE old

\* Lines 93 and 95: _pending_flow = <the flow just created>, whatever the slot
\* held before.
NewPending(old, created) == created

\* GET /login  (lines 87-99)
Login ==
  /\ portalPc = "idle"
  /\ Len(flows) < MaxFlows
  /\ IF clientConfig = "missing"
       THEN /\ response' =
                 Response("/login", None, 0, "", "", NoUrl,
                          "FileNotFoundError", 0)
            /\ UNCHANGED << flows, pending_flow >>
       ELSE LET flow == LoginFlow(clientConfig)
                auth_url == LoginUrl(flow)
            IN /\ flows' = Append(flows, [ flow EXCEPT !.state = "URLIssued" ])
               /\ pending_flow' = NewPending(pending_flow, Len(flows) + 1)
               /\ response' =
                    Response("/login", None, 302, "", "", auth_url, None, 0)
  /\ UNCHANGED << remote, toolPc >>
  /\ UNCHANGED << now, envToken, tokenFile, clientConfig, portalPc, result >>

\* The checks of lines 104-105 without the test of the code.
CallbackError_NoCodeTest(code, pending) ==
  IF pending = 0 THEN "No pending auth flow. Start from /login." ELSE ""

\* Lines 104-105: the message of the ValueError raised before the exchange,
\* "" when none is raised.
CallbackError(code, pending) ==
  IF code = None THEN "No authorization code received"
  ELSE IF pending = 0 THEN "No pending auth flow. Start from /login."
  ELSE ""

\* The file opened for writing before the exchange is attempted.
AfterRejectedExchange_Truncated(file) == FileTruncated

\* Line 106 raises before line 107 opens the file: a rejected exchange leaves
\* the token file as it was.
AfterRejectedExchange(file) == file

\* GET /callback...  (lines 101-107): up to open(TOKEN_FILE_PATH, 'w'), which
\* truncates the file.
Callback(q) ==
  /\ portalPc = "idle"
  /\ LET code == CodeOf(q)
         error == CallbackError(code, pending_flow)
     IN
     IF error # ""
       THEN /\ response' = ErrorPage(code, error, 0)
            /\ UNCHANGED << flows, tokenFile, portalPc >>
     ELSE \E p \in ExchangeAnswers :
       IF ~p.ok
         THEN /\ response' = ErrorPage(code, "invalid_grant", pending_flow)
              /\ tokenFile' = AfterRejectedExchange(tokenFile)
              /\ UNCHANGED << flows, portalPc >>
         ELSE /\ flows' = [ flows EXCEPT
                              ![pending_flow] = fetch_token(@, p, now) ]
              /\ tokenFile' = FileTruncated
              /\ portalPc' = "cb_write"
              /\ response' =
                   Response("/callback", code, 0, "", "", NoUrl, None,
                            pending_flow)
  /\ UNCHANGED << remote, toolPc >>
  /\ UNCHANGED << now, envToken, clientConfig, pending_flow, result >>

\* Lines 108-117: the credential is written, the file closed, 200 sent.
CallbackWrite ==
  /\ portalPc = "cb_write"
  /\ tokenFile' = Json(ToJson(flows[pending_flow].credentials))
  /\ response' = [ response EXCEPT !.status = 200, !.page = "Authenticated!",
                                   !.link = "/" ]
  /\ portalPc' = "idle"
  /\ UNCHANGED << remote, toolPc >>
  /\ UNCHANGED << now, envToken, clientConfig, flows, pending_flow, result >>

\* Any other path: do_GET matches no branch and sends nothing.
OtherPath ==
  /\ portalPc = "idle"
  /\ response' = Response("/other", None, 0, "", "", NoUrl, None, 0)
  /\ UNCHANGED << remote, toolPc >>
  /\ UNCHANGED << now, envToken, tokenFile, clientConfig, flows, pending_flow,
                  portalPc, result >>

Next ==
  \/ ToolCall
  \/ Tick
  \/ Root
  \/ Login
  \/ \E q \in Queries : Callback(q)
  \/ CallbackWrite
  \/ OtherPath

Spec == Init /\ [][Next]_vars

\* The tools over a token file the portal writes: no environment token, the
\* client configuration inline, the token file absent or holding a credential.
ToolInit ==
  /\ now = 0
  /\ envToken = EnvUnset
  /\ tokenFile \in { FileAbsent } \cup
       { Json(i) : i \in { j \in StoredInfos :
                             j.token = "abc" /\ j.scopes = Range(SCOPES) } }
  /\ clientConfig = "inline"
  /\ flows = << >>
  /\ pending_flow = 0
  /\ portalPc = "idle"
  /\ response = NoResponse
  /\ result = NoResult
  /\ slides = << >>
  /\ requests = << >>
  /\ toolPc = "idle"

ToolNext ==
  \/ ToolInvoke
  \/ Tick
  \/ Login
  \/ \E q \in Queries : Callback(q)
  \/ CallbackWrite

ToolSpec == ToolInit /\ [][ToolNext]_vars

\* ------------------------------------- interactive variant (src/server.py)
\* Line 69: the redirect of the local listener of run_local_server(port=0).
LocalRedirect == [ host |-> "localhost", port |-> 0, path |-> "/" ]

\* Lines 62-76: the flow of the interactive variant.
InteractiveFlow(config) ==
  IF config = "inline"
    THEN from_client_config(CLIENT_ID, CLIENT_SECRET, SCOPES, LocalRedirect)
    ELSE from_client_secrets_file(CRED_FILE_PATH, SCOPES, LocalRedirect)

\* Lines 55-59: the else branch, taken for no credential or one that is not
\* valid and cannot be refreshed.
StartsFlow(creds, t) == NotAuthenticated(creds, t) /\ ~ShouldRefresh(creds, t)

MissingCredentialsMessage == [ text |-> "Missing credentials" ]

\* A run that returns the credential without saving it.
SaveToken_Skipped(file, creds) == file

\* Lines 82-83: the token file after token.write(creds.to_json()).
SaveToken(file, creds) == Json(ToJson(creds))

\* What a call of the interactive get_credentials did: its outcome, what it
\* found, and the flow it ran (0: none).
InteractiveResult(o, env, file, t, flow) ==
  [ kind |-> "called", call |-> o, env |-> env, file |-> file, at |-> t,
    flow |-> flow ]

\* get_credentials of src/server.py, lines 37-76 and 86: up to the return,
\* the exception, or the start of run_local_server.
InteractiveCall ==
  /\ toolPc = "idle"
  /\ tokenFile # FileTruncated
  /\ \E p \in RefreshAnswers :
       LET creds == Resolved(envToken, tokenFile, now)
           source == Source(envToken, tokenFile, now)
           returns(o) ==
             /\ result' = InteractiveResult(o, envToken, tokenFile, now, 0)
             /\ UNCHANGED << flows, toolPc >>
       IN
       IF ~NotAuthenticated(creds, now)
         THEN returns(Outcome("return", creds, [ text |-> "" ], FALSE, source))
       ELSE IF ~StartsFlow(creds, now)
         THEN IF p.ok
                THEN returns(Outcome("return", Refresh(creds, p, now),
                                     [ text |-> "" ], TRUE, source))
                ELSE returns(RefreshFailure(source))
       ELSE IF clientConfig = "missing"
         THEN returns(Outcome("FileNotFoundError", NoCreds,
                              MissingCredentialsMessage, FALSE, source))
       ELSE /\ Len(flows) < MaxFlows
            /\ flows' = Append(flows, InteractiveFlow(clientConfig))
            /\ toolPc' = "run_local_server"
            /\ result' = [ kind |-> "waiting", env |-> envToken,
                           file |-> tokenFile, at |-> now,
                           flow |-> Len(flows) + 1 ]
  /\ UNCHANGED << now, envToken, tokenFile, clientConfig, pending_flow,
                  portalPc, response, slides, requests >>

\* Lines 79-86: run_local_server returns once the user has consented and the
\* code is exchanged, then the token is saved and returned; or it raises.
RunLocalServer ==
  /\ toolPc = "run_local_server"
  /\ \E p \in ExchangeAnswers :
       LET i == result.flow
           done == fetch_token(flows[i], p, now)
           source == "flow"
       IN
       IF p.ok
         THEN /\ flows' = [ flows EXCEPT ![i] = done ]
              /\ tokenFile' = SaveToken(tokenFile, done.credentials)
              /\ result' = InteractiveResult(
                   Outcome("return", done.credentials, [ text |-> "" ], FALSE,
                           source),
                   result.env, result.file, now, i)
         ELSE /\ result' = InteractiveResult(
                   Outcome("FlowError", NoCreds, [ text |-> "access_denied" ],
                           FALSE, source),
                   result.env, result.file, now, i)
              /\ UNCHANGED << flows, tokenFile >>
  /\ toolPc' = "idle"
  /\ UNCHANGED << now, envToken, clientConfig, pending_flow, portalPc,
                  response, slides, requests >>

\* The interactive variant has no portal: one thread, the environment and the
\* token file as the module finds them.
InteractiveInit ==
  /\ now = 0
  /\ envToken \in { EnvUnset, EnvMalformed } \cup { Json(i) : i \in EnvInfos }
  /\ tokenFile \in { FileAbsent } \cup { Json(i) : i \in StoredInfos }
  /\ clientConfig \in { "inline", "file", "missing" }
  /\ flows = << >>
  /\ pending_flow = 0
  /\ portalPc = "idle"
  /\ response = NoResponse
  /\ result = NoResult
  /\ slides = << >>
  /\ requests = << >>
  /\ toolPc = "idle"

InteractiveNext ==
  \/ InteractiveCall
  \/ RunLocalServer
  \/ Tick

InteractiveSpec == InteractiveInit /\ [][InteractiveNext]_vars

\* ------------------------------------------------- tools and their arguments
\* A slide of the presentation: its object id and the text boxes added to it.
Slide(id) == [ objectId |-> id, boxes |-> 0 ]

\* slide_index arguments, below and above every index of the presentation.
SlideIndexes == (0 - (MaxSlides + 1)) .. (MaxSlides + 1)

\* Python's seq[i] on a list of n elements, as a 1-based position: a negative
\* i counts from the end; 0 where seq[i] raises IndexError.
PyIndex(i, n) ==
  IF i >= 0 /\ i < n THEN i + 1
  ELSE IF i < 0 /\ n + i >= 0 THEN n + i + 1
  ELSE 0

IndexErrorMessage == [ text |-> "list index out of range" ]

\* Lines 584 and 624: if slide_index >= len(slides).
OutOfRange(slide_index, n) == slide_index >= n

\* The message of lines 584 and 624.
OutOfRangeText(slide_index, n) ==
  Text("", [ text |-> "Slide index out of range",
             index |-> slide_index, total |-> n ])

Get == [ method |-> "presentations.get" ]
BatchUpdate(kind, id) ==
  [ method |-> "presentations.batchUpdate", request |-> kind, objectId |-> id ]

\* What a slide tool returned and what it left behind.
SlideResult(tool, slide_index, o, returned) ==
  [ kind |-> "slides", tool |-> tool, index |-> slide_index, call |-> o,
    before |-> slides, returned |-> returned ]

\* The effect of the batchUpdate of a slide tool on the slide at position k.
Apply(tool, k) ==
  IF tool = "delete_slide"
    THEN SubSeq(slides, 1, k - 1) \o SubSeq(slides, k + 1, Len(slides))
    ELSE [ slides EXCEPT ![k].boxes = @ + 1 ]

\* add_text_to_slide (lines 576-598) and delete_slide (lines 617-629): the
\* credential, presentations().get, the range test, slides[slide_index],
\* batchUpdate; every exception is returned as str(e).
SlideTool(tool, slide_index) ==
  \E p \in RefreshAnswers, get \in ApiOutcomes, update \in ApiOutcomes :
    LET o == get_credentials(envToken, tokenFile, now, p)
        n == Len(slides)
        k == PyIndex(slide_index, n)
        done(returned, sent, after) ==
          /\ result' = SlideResult(tool, slide_index, o, returned)
          /\ requests' = sent
          /\ slides' = after
    IN
    /\ IF o.kind # "return"
         THEN done(Handler(tool, o.kind, o.message), << >>, slides)
       ELSE IF get = "HttpError"
         THEN done(Handler(tool, "HttpError", HttpErrorMessage), << Get >>, slides)
       ELSE IF OutOfRange(slide_index, n)
         THEN done(OutOfRangeText(slide_index, n), << Get >>, slides)
       ELSE IF k = 0
         THEN done(Handler(tool, "IndexError", IndexErrorMessage), << Get >>, slides)
       ELSE IF update = "HttpError"
         THEN done(Handler(tool, "HttpError", HttpErrorMessage),
                   << Get, BatchUpdate(tool, slides[k].objectId) >>, slides)
       ELSE /\ (tool = "add_text_to_slide" => slides[k].boxes < MaxBoxes)
            /\ done(Text("", [ text |-> "done", slide |-> slide_index + 1 ]),
                    << Get, BatchUpdate(tool, slides[k].objectId) >>,
                    Apply(tool, k))
    /\ UNCHANGED << now, envToken, tokenFile, clientConfig, flows, pending_flow,
                    portalPc, response, toolPc >>

AddTextToSlide == \E i \in SlideIndexes : SlideTool("add_text_to_slide", i)
DeleteSlide == \E i \in SlideIndexes : SlideTool("delete_slide", i)

\* mime_map of export_document (lines 326-331), export_spreadsheet (lines
\* 501-506) and export_presentation (lines 637-641).
mime_map(tool) ==
  IF tool = "export_document"
    THEN [ text |-> "text/plain", html |-> "text/html", pdf |-> "application/pdf",
           docx |-> "application/vnd.openxmlformats-officedocument.wordprocessingml.document" ]
  ELSE IF tool = "export_spreadsheet"
    THEN [ csv |-> "text/csv",
           xlsx |-> "application/vnd.openxmlformats-officedocument.spreadsheetml.sheet",
           pdf |-> "application/pdf", tsv |-> "text/tab-separated-values" ]
  ELSE [ pdf |-> "application/pdf",
         pptx |-> "application/vnd.openxmlformats-officedocument.presentationml.presentation",
         txt |-> "text/plain" ]

\* The formats the message of lines 333, 509 and 643 lists after "Use:".
UseList(tool) ==
  IF tool = "export_document" THEN << "text", "html", "pdf", "docx" >>
  ELSE IF tool = "export_spreadsheet" THEN << "csv", "xlsx", "pdf", "tsv" >>
  ELSE << "pdf", "pptx", "txt" >>

ExportTools == { "export_document", "export_spreadsheet", "export_presentation" }

\* format arguments: every key of the three maps, and some that are no key
\* of any (a key in capitals, the empty string, an unknown name).
Formats ==
  UNION { DOMAIN mime_map(t) : t \in ExportTools } \cup { "PDF", "", "mp4" }

\* A lookup that falls back on PDF for a format that is no key.
Lookup_DefaultPdf(map, format) ==
  IF format \in DOMAIN map THEN map[format] ELSE map["pdf"]

\* mime_map.get(format): None for a format that is no key.
Lookup(map, format) == IF format \in DOMAIN map THEN map[format] ELSE None

UnsupportedText(tool, format) ==
  Text("", [ text |-> "Unsupported format", format |-> format,
             use |-> UseList(tool) ])

Export(mime) == [ method |-> "files.export", mimeType |-> mime ]

ExportResult(tool, format, o, returned) ==
  [ kind |-> "export", tool |-> tool, format |-> format, call |-> o,
    returned |-> returned ]

\* export_document (322-339), export_spreadsheet (497-516) and
\* export_presentation (632-648): the credential, the lookup of the format,
\* files().export with the MIME type found, the content returned as text or
\* as base64.
ExportTool(tool, format) ==
  \E p \in RefreshAnswers, export \in ApiOutcomes :
    LET o == get_credentials(envToken, tokenFile, now, p)
        mime == Lookup(mime_map(tool), format)
        done(returned, sent) ==
          /\ result' = ExportResult(tool, format, o, returned)
          /\ requests' = sent
    IN
    /\ IF o.kind # "return"
         THEN done(Handler(tool, o.kind, o.message), << >>)
       ELSE IF mime = None
         THEN done(UnsupportedText(tool, format), << >>)
       ELSE IF export = "HttpError"
         THEN done(Handler(tool, "HttpError", HttpErrorMessage),
                   << Export(mime) >>)
       ELSE done(Text("", [ text |-> "content", format |-> format ]),
                 << Export(mime) >>)
    /\ UNCHANGED << now, envToken, tokenFile, clientConfig, flows, pending_flow,
                    portalPc, response, slides, toolPc >>

ExportDocument == \E f \in Formats : ExportTool("export_document", f)
ExportSpreadsheet == \E f \in Formats : ExportTool("export_spreadsheet", f)
ExportPresentation == \E f \in Formats : ExportTool("export_presentation", f)

\* values / data arguments, as the characters of the string: JSON arrays,
\* a scalar, and texts that are no JSON (empty, unclosed, a trailing comma,
\* a stray bracket, text after the value).
JsonTexts ==
  { << "[", "[", "1", ",", "1", "]", "]" >>, << "[", "]" >>, << "1" >>,
    << >>, << "[", "[", "1", "]" >>, << "[", "1", ",", "]" >>, << "]" >>,
    << "[", "1", "]", "1" >> }

RECURSIVE ParseValue(_, _), ParseItems(_, _)
\* The JSON value that starts at s[i]: the position after it, 0 if there is
\* none.
ParseValue(s, i) ==
  IF i > Len(s) THEN 0
  ELSE IF s[i] = "1" THEN i + 1
  ELSE IF s[i] = "["
    THEN IF i + 1 <= Len(s) /\ s[i + 1] = "]" THEN i + 2
         ELSE ParseItems(s, i + 1)
  ELSE 0

\* The items of an array from s[i] to its closing bracket.
ParseItems(s, i) ==
  LET j == ParseValue(s, i) IN
  IF j = 0 \/ j > Len(s) THEN 0
  ELSE IF s[j] = "]" THEN j + 1
  ELSE IF s[j] = "," THEN ParseItems(s, j + 1)
  ELSE 0

\* A parser that stops at the end of the first value and ignores the rest.
json_loads_Prefix(s) == [ ok |-> ParseValue(s, 1) # 0, value |-> s ]

\* json.loads(values) (lines 378, 396, 472): the whole string is one JSON
\* value, or JSONDecodeError.
json_loads(s) == [ ok |-> ParseValue(s, 1) = Len(s) + 1, value |-> s ]

\* The write each tool sends: values().update (379-384), values().append
\* (397-403), values().batchUpdate (473-476).
Write(tool, parsed) ==
  [ method |-> IF tool = "update_spreadsheet" THEN "values.update"
               ELSE IF tool = "append_to_spreadsheet" THEN "values.append"
               ELSE "values.batchUpdate",
    body |-> parsed ]

SheetsResult(tool, values, o, returned) ==
  [ kind |-> "sheets", tool |-> tool, values |-> values, call |-> o,
    returned |-> returned ]

\* update_spreadsheet (374-389), append_to_spreadsheet (392-409) and
\* batch_update_spreadsheet (468-481): the credential, json.loads of the
\* argument, the write.
SheetsTool(tool, values) ==
  \E p \in RefreshAnswers, write \in ApiOutcomes :
    LET o == get_credentials(envToken, tokenFile, now, p)
        parsed == json_loads(values)
        done(returned, sent) ==
          /\ result' = SheetsResult(tool, values, o, returned)
          /\ requests' = sent
    IN
    /\ IF o.kind # "return"
         THEN done(Handler(tool, o.kind, o.message), << >>)
       ELSE IF ~parsed.ok
         THEN done(Handler(tool, "JSONDecodeError", [ text |-> "Expecting value" ]),
                   << >>)
       ELSE IF write = "HttpError"
         THEN done(Handler(tool, "HttpError", HttpErrorMessage),
                   << Write(tool, parsed.value) >>)
       ELSE done(Text("", [ text |-> "done" ]), << Write(tool, parsed.value) >>)
    /\ UNCHANGED << now, envToken, tokenFile, clientConfig, flows, pending_flow,
                    portalPc, response, slides, toolPc >>

UpdateSpreadsheet == \E v \in JsonTexts : SheetsTool("update_spreadsheet", v)
AppendToSpreadsheet == \E v \in JsonTexts : SheetsTool("append_to_spreadsheet", v)
BatchUpdateSpreadsheet ==
  \E v \in JsonTexts : SheetsTool("batch_update_spreadsheet", v)

\* The tools that test their arguments, over a presentation of up to
\* MaxSlides slides, with and without a stored credential.
ApiInit ==
  /\ now = 0
  /\ envToken = EnvUnset
  /\ tokenFile \in { FileAbsent } \cup
       { Json(i) : i \in { j \in StoredInfos :
                             /\ j.token = "abc" /\ j.expiry = NoExpiry
                             /\ j.scopes = Range(SCOPES) } }
  /\ clientConfig = "inline"
  /\ flows = << >>
  /\ pending_flow = 0
  /\ portalPc = "idle"
  /\ response = NoResponse
  /\ result = NoResult
  /\ slides \in { [ i \in 1..n |-> Slide(i) ] : n \in 0..MaxSlides }
  /\ requests = << >>
  /\ toolPc = "idle"

ApiNext ==
  \/ AddTextToSlide
  \/ DeleteSlide
  \/ ExportDocument
  \/ ExportSpreadsheet
  \/ ExportPresentation
  \/ UpdateSpreadsheet
  \/ AppendToSpreadsheet
  \/ BatchUpdateSpreadsheet

ApiSpec == ApiInit /\ [][ApiNext]_vars

\* ------------------------------------------------------------------ claims
Called == result.kind = "called"

\* The credential the token file of the last call held, as the resolver loads it.
FileCreds(r) == FromAuthorizedUserInfo(r.file.info, SCOPES)

NamesPortal(message) ==
  /\ "url" \in DOMAIN message
  /\ message.url = [ host |-> "localhost", port |-> AUTH_PORT ]

\* C1: every get_credentials call either returns a credential that is valid at
\* return time or fails with the NotAuthenticated error (the RuntimeError of
\* lines 51-53); no other outcome exists.
C1_TwoOutcomes ==
  Called =>
    \/ /\ result.call.kind = "return"
       /\ result.call.creds # NoCreds
       /\ Valid(result.call.creds, result.at)
    \/ /\ result.call.kind = "RuntimeError"
       /\ result.call.message.text = NotAuthenticatedMessage.text

\* C2: whenever get_credentials reports not-authenticated, the message names
\* the Portal URL http://localhost:<AUTH_PORT>; with no environment token and
\* no token file that is the outcome.
C2_MessageNamesPortal ==
  Called =>
    /\ result.call.kind = "RuntimeError" => NamesPortal(result.call.message)
    /\ (result.env = EnvUnset /\ result.file = FileAbsent) =>
         result.call.kind = "RuntimeError"

C2_Witness ==
  /\ Called
  /\ result.env = EnvUnset
  /\ result.file = FileAbsent
  /\ result.call.kind = "RuntimeError"
  /\ NamesPortal(result.call.message)

\* The token file of call r held a valid, non-expired credential.
FileValid(r) ==
  /\ r.kind = "called"
  /\ r.file.kind = "json"
  /\ Valid(FileCreds(r), r.at)

\* GOOGLE_TOKEN_JSON of call r was unset, malformed or gave no valid credential.
EnvNotValid(r) == r.env.kind # "json" \/ ~Valid(FromEnv(r.env), r.at)

\* Call r returned the credential stored in its token file, without a refresh.
ReturnedStored(r) ==
  /\ r.call.kind = "return"
  /\ r.call.creds = FileCreds(r)
  /\ r.call.creds.token = r.file.info.token
  /\ ~r.call.refreshed

\* C3 as stated: with an unchanged token file holding a valid, non-expired
\* credential, two consecutive calls return equal credentials, with the stored
\* access token, and neither refreshes.
C3_AsStated ==
  [][ (FileValid(result) /\ FileValid(result') /\ result'.file = result.file)
        => /\ ReturnedStored(result)
           /\ ReturnedStored(result')
           /\ result'.call.creds = result.call.creds ]_vars

\* C3 amended: the same, when the environment token is unset, malformed or
\* gives no valid credential at either call.
C3_IdempotentResolution ==
  [][ (/\ FileValid(result) /\ FileValid(result')
       /\ result'.file = result.file
       /\ EnvNotValid(result) /\ EnvNotValid(result'))
        => /\ ReturnedStored(result)
           /\ ReturnedStored(result')
           /\ result'.call.creds = result.call.creds ]_vars

\* A second call found the file as the first did, one tick later, and both
\* returned the stored credential.
C3_Witness ==
  /\ FileValid(result)
  /\ EnvNotValid(result)
  /\ result.env.kind = "json"
  /\ result.at = 1
  /\ result.file.info.refresh_token # None
  /\ ReturnedStored(result)

\* C4: a call that refreshed an expired credential of the token file and
\* returned leaves the new access token in the token file.
C4_RefreshPersisted ==
  [][ (/\ result' # result
       /\ result'.kind = "called"
       /\ result'.call.kind = "return"
       /\ result'.call.refreshed
       /\ result'.call.source = "file")
        => /\ tokenFile'.kind = "json"
           /\ tokenFile'.info.token = result'.call.creds.token ]_vars

\* C5: a call whose resolved credential is expired and has no refresh token
\* ends in NotAuthenticated without calling the refresher.
ResolvedOf(r) == Resolved(r.env, r.file, r.at)

ExpiredNoRefreshToken(r) ==
  /\ r.kind = "called"
  /\ ResolvedOf(r).kind = "Credentials"
  /\ Expired(ResolvedOf(r), r.at)
  /\ ResolvedOf(r).refresh_token = None

C5_NoRefreshTokenHardStop ==
  ExpiredNoRefreshToken(result) =>
    /\ result.call.kind = "RuntimeError"
    /\ ~result.call.refreshed

C5_Witness ==
  /\ ExpiredNoRefreshToken(result)
  /\ result.call.source = "file"
  /\ result.call.kind = "RuntimeError"

\* C6: a credential of the token file whose granted scopes are a strict subset
\* of SCOPES is never returned.
C6_ScopeSufficiency ==
  (/\ Called
   /\ result.call.source = "file"
   /\ result.file.kind = "json"
   /\ result.file.info.scopes \subseteq Range(SCOPES)
   /\ result.file.info.scopes # Range(SCOPES))
    => result.call.kind = "RuntimeError"

\* The query string q carries no code parameter at all.
NoCodeParam(q) == \A i \in DOMAIN q : q[i][1] # "code"

\* The query string q carries a code parameter with a value.
HasCode(q) == \E i \in DOMAIN q : q[i][1] = "code" /\ q[i][2] # ""

\* The handler sent the error page and let no exception out.
ErrorResponse(r) == r.status = 500 /\ r.raised = None

\* C7: GET /callback without a code parameter never writes the token file,
\* never calls the pending flow's exchange and answers 500, whether the
\* pending-flow slot is empty or holds a flow.
C7_CallbackWithoutCode ==
  [][ \A q \in Queries :
        (NoCodeParam(q) /\ Callback(q))
          => /\ tokenFile' = tokenFile
             /\ flows' = flows
             /\ pending_flow' = pending_flow
             /\ portalPc' = "idle"
             /\ response'.path = "/callback"
             /\ ErrorResponse(response')
             /\ response'.fetched = 0 ]_vars

C7_Witness ==
  /\ response.path = "/callback"
  /\ response.code = None
  /\ ErrorResponse(response)
  /\ response.fetched = 0
  /\ pending_flow # 0
  /\ flows[pending_flow].state = "URLIssued"
  /\ tokenFile = FileAbsent

\* C8: GET /callback?code=X while no /login has been handled answers the 500
\* page that links back to /login, leaves the token file as it was, and no
\* exception leaves the handler.
C8_CallbackWithoutLogin ==
  [][ \A q \in Queries :
        (HasCode(q) /\ pending_flow = 0 /\ Callback(q))
          => /\ response'.path = "/callback"
             /\ ErrorResponse(response')
             /\ response'.link = "/login"
             /\ response'.fetched = 0
             /\ tokenFile' = tokenFile
             /\ flows' = flows
             /\ pending_flow' = 0
             /\ portalPc' = "idle" ]_vars

C8_Witness ==
  /\ response.path = "/callback"
  /\ response.code = "c1"
  /\ ErrorResponse(response)
  /\ response.link = "/login"
  /\ response.page = "No pending auth flow. Start from /login."
  /\ pending_flow = 0
  /\ flows = << >>

\* The last portal request was a /callback that answered 200.
CallbackSucceeded ==
  /\ portalPc = "idle"
  /\ response.path = "/callback"
  /\ response.status = 200

\* C9: a /callback with a code, handled after a /login and with the exchange
\* succeeding, answers 200 and leaves the token file holding the exchanged
\* credential, valid; a get_credentials call started after it, with no
\* environment token and the credential unexpired, returns that credential.
C9_CallbackStoresCredential ==
  [][ /\ CallbackWrite =>
           /\ response'.status = 200
           /\ response'.raised = None
           /\ response'.fetched = pending_flow
           /\ tokenFile'.kind = "json"
           /\ tokenFile'.info.token = flows[pending_flow].credentials.token
           /\ tokenFile'.info.refresh_token =
                flows[pending_flow].credentials.refresh_token
           /\ tokenFile'.info.expiry = flows[pending_flow].credentials.expiry
           /\ Valid(FromAuthorizedUserInfo(tokenFile'.info, SCOPES), now')
      /\ (/\ CallbackSucceeded
          /\ envToken = EnvUnset
          /\ tokenFile.kind = "json"
          /\ Valid(FromAuthorizedUserInfo(tokenFile.info, SCOPES), now)
          /\ ToolCall)
           => /\ result'.call.kind = "return"
              /\ result'.call.creds.token =
                   flows[response.fetched].credentials.token
              /\ Valid(result'.call.creds, now)
              /\ ~result'.call.refreshed ]_vars

C9_Witness ==
  /\ CallbackSucceeded
  /\ Called
  /\ result.env = EnvUnset
  /\ result.file = tokenFile
  /\ result.at = now
  /\ result.call.kind = "return"
  /\ result.call.creds.token = flows[response.fetched].credentials.token
  /\ flows[response.fetched].state = "Exchanged"

\* C10: GET /login with a client identity configured creates a fresh flow,
\* stores it in the pending-flow slot in place of whatever was there, and
\* answers 302 to that flow's authorization URL, built with
\* access_type=offline and prompt=consent for the whole SCOPES list; the token
\* file is not written.
C10_LoginStartsFreshFlow ==
  [][ (clientConfig # "missing" /\ Login)
        => /\ Len(flows') = Len(flows) + 1
           /\ \A i \in DOMAIN flows : flows'[i] = flows[i]
           /\ pending_flow' = Len(flows')
           /\ flows'[pending_flow'].state = "URLIssued"
           /\ flows'[pending_flow'].scopes = SCOPES
           /\ response'.path = "/login"
           /\ response'.status = 302
           /\ response'.raised = None
           /\ response'.location.access_type = "offline"
           /\ response'.location.prompt = "consent"
           /\ response'.location.scope = SCOPES
           /\ response'.location.client_id = flows'[pending_flow'].client_id
           /\ response'.location.redirect_uri =
                [ host |-> "localhost", port |-> AUTH_PORT, path |-> "/callback" ]
           /\ clientConfig = "inline" => response'.location.client_id = CLIENT_ID
           /\ tokenFile' = tokenFile ]_vars

C10_Witness ==
  /\ response.path = "/login"
  /\ response.status = 302
  /\ clientConfig = "inline"
  /\ Len(flows) = 2
  /\ pending_flow = 2
  /\ flows[1].state = "URLIssued"
  /\ flows[2].state = "URLIssued"
  /\ response.location.client_id = CLIENT_ID

\* C11: GET / only reads: it computes the status with the resolver, starts no
\* flow, leaves the pending-flow slot and the token file as they were, and
\* answers 200 with the Authenticated / Not Authenticated page whatever the
\* resolver's outcome, a raised exception included.
C11_RootOnlyReads ==
  [][ Root =>
        /\ tokenFile' = tokenFile
        /\ flows' = flows
        /\ pending_flow' = pending_flow
        /\ portalPc' = "idle"
        /\ response'.path = "/"
        /\ response'.status = 200
        /\ response'.raised = None
        /\ response'.page \in { "Authenticated", "Not Authenticated" }
        /\ response'.link = "/login"
        /\ response'.fetched = 0
        /\ response'.page = "Authenticated" =>
             \E p \in RefreshAnswers :
               get_credentials(envToken, tokenFile, now, p).kind = "return" ]_vars

\* The status page was answered while the token file held an expired
\* credential with a refresh token: the resolver's refresh was refused.
C11_Witness ==
  /\ response.path = "/"
  /\ response.status = 200
  /\ response.page = "Not Authenticated"
  /\ envToken = EnvUnset
  /\ tokenFile.kind = "json"
  /\ tokenFile.info.token = "abc"
  /\ tokenFile.info.refresh_token = "r1"
  /\ tokenFile.info.expiry = At(1)
  /\ pending_flow = 0

\* C12: a flow that a successful /callback has exchanged is never exchanged
\* again: a further /callback?code=... without a /login in between does not
\* call fetch_token on it.
C12_NoSecondExchange ==
  [][ \A q \in Queries :
        (/\ HasCode(q)
         /\ pending_flow # 0
         /\ flows[pending_flow].state = "Exchanged"
         /\ Callback(q))
          => response'.fetched = 0 ]_vars

\* C13: a /callback exchanges its code on the flow the most recent /login
\* stored and on no other; the flow of an older /login is never touched again.
C13_CallbackUsesLatestFlow ==
  [][ /\ \A q \in Queries :
           Callback(q) =>
             /\ response'.fetched \in { 0, Len(flows) }
             /\ response'.fetched # 0 => pending_flow = Len(flows)
      /\ \A i \in DOMAIN flows :
           (i < Len(flows) \/ i # pending_flow) => flows'[i] = flows[i]
      /\ pending_flow' \in { pending_flow, Len(flows) + 1 } ]_vars

\* The second flow was exchanged while the first, older one stayed as issued.
C13_Witness ==
  /\ Len(flows) = 2
  /\ pending_flow = 2
  /\ flows[1].state = "URLIssued"
  /\ flows[2].state = "Exchanged"
  /\ response.path = "/callback"
  /\ response.fetched = 2
  /\ response.status = 200

\* Flows whose authorization URL was issued and that were not exchanged.
Issued == { i \in DOMAIN flows : flows[i].state = "URLIssued" }

\* C14 as stated: at most one flow is in the URLIssued state.
C14_AsStated == Cardinality(Issued) <= 1

\* C14 amended: at most one issued flow can still be exchanged, the one in the
\* pending-flow slot, which is the flow of the latest /login; every other
\* issued flow is an older one that a later /login replaced.
C14_OneExchangeableFlow ==
  /\ pending_flow = Len(flows)
  /\ \A i \in Issued : i = pending_flow \/ i < pending_flow

C14_Witness ==
  /\ Cardinality(Issued) = 2
  /\ pending_flow = 2
  /\ response.path = "/login"

\* C15: a get_credentials call never observes a token file that a /callback
\* is in the middle of writing: what it reads is the complete previous
\* content or the complete new content.
C15_AtomicTokenWrite ==
  Called =>
    /\ result.file # FileTruncated
    /\ result.call.kind # "JSONDecodeError"

\* C16: no exception leaves the request handler: every portal request that
\* fails is answered with the error page and its retry link, /login without
\* any client identity included.
C16_PortalErrorsRendered ==
  response # NoResponse =>
    /\ response.raised = None
    /\ response.path = "/login" =>
         \/ response.status = 302
         \/ response.status = 500 /\ response.link = "/login"

\* The exception a tool invocation met, if any: the one get_credentials
\* raised, else the one the remote call raised.
ToolException(r) ==
  IF r.call.kind # "return" THEN r.call.message
  ELSE IF r.api = "HttpError" THEN HttpErrorMessage
  ELSE [ text |-> "" ]

\* C17: every tool returns a string and never raises; an exception raised by
\* get_credentials, by build or by the remote call is returned as text that
\* contains the exception's message.
C17_ToolsReturnErrorText ==
  Called =>
    /\ result.returned.type = "str"
    /\ ToolException(result) # [ text |-> "" ] =>
         result.returned.body = ToolException(result)

\* A call whose refresh attempt did not produce a credential.
RefreshFailed(r) == r.call.refreshed /\ r.call.kind # "return"

\* C18: when the refresh of an expired credential fails, the failure leaves
\* get_credentials as the refresh error itself (not swallowed, not turned
\* into another outcome), no credential is returned, and the token file and
\* the pending-flow slot are as they were.
C18_RefreshFailurePropagates ==
  [][ (ToolCall /\ RefreshFailed(result')) =>
         /\ result'.call.kind = "RefreshError"
         /\ result'.call.message = RefreshErrorMessage
         /\ result'.call.creds = NoCreds
         /\ tokenFile' = tokenFile
         /\ pending_flow' = pending_flow
         /\ flows' = flows ]_vars

C18_Witness ==
  /\ Called
  /\ RefreshFailed(result)
  /\ result.call.kind = "RefreshError"
  /\ result.file = tokenFile
  /\ pending_flow > 0

\* C19: a refresh rejected by the provider reaches the caller of
\* get_credentials as the not-authenticated error of the never-authenticated
\* case, its message naming the portal URL.
C19_RefreshFailedIsNotAuthenticated ==
  (Called /\ RefreshFailed(result)) =>
    /\ result.call.kind = "RuntimeError"
    /\ result.call.message = NotAuthenticatedMessage
    /\ NamesPortal(result.call.message)

\* The credential the last successful /callback wrote.
Written == flows[response.fetched].credentials

FileExists(r) == r.kind = "called" /\ r.file.kind = "json"

\* Call r returned what the token file held: the stored credential, or the
\* stored credential refreshed.
ReturnedFromFile(r) ==
  /\ r.call.source = "file"
  /\ r.call.kind = "return" =>
       /\ r.call.creds.refresh_token = FileCreds(r).refresh_token
       /\ ~r.call.refreshed => r.call.creds = FileCreds(r)

\* C21 as stated: whenever a token file exists, the file's credential
\* replaces the one of the environment token, valid or not, and the returned
\* credential is the file's.
C21_AsStated == FileExists(result) => ReturnedFromFile(result)

\* C21 amended: when a token file exists and the environment token is unset,
\* malformed or parsed into a credential that is not valid, the file's
\* credential replaces the environment's and the returned credential is the
\* file's.
C21_FileReplacesInvalidEnv ==
  (FileExists(result) /\ EnvNotValid(result)) => ReturnedFromFile(result)

\* An environment token that parsed but had expired, replaced by a valid file.
C21_Witness ==
  /\ FileExists(result)
  /\ result.env.kind = "json"
  /\ EnvNotValid(result)
  /\ result.call.kind = "return"
  /\ result.call.creds = FileCreds(result)
  /\ result.call.creds # FromEnv(result.env)

\* GOOGLE_TOKEN_JSON of call r parsed into a valid credential.
EnvValid(r) ==
  r.kind = "called" /\ r.env.kind = "json" /\ Valid(FromEnv(r.env), r.at)

\* C22: a valid credential from GOOGLE_TOKEN_JSON is returned as it is and
\* the token file is not read; the file is the source only when the
\* environment token is unset, malformed or gives no valid credential.
C22_EnvTokenFirst ==
  /\ EnvValid(result) =>
       /\ result.call.kind = "return"
       /\ result.call.creds = FromEnv(result.env)
       /\ result.call.source = "env"
       /\ ~result.call.refreshed
  /\ (Called /\ result.call.source = "file") => EnvNotValid(result)

\* A valid environment token returned while a token file exists.
C22_Witness ==
  /\ EnvValid(result)
  /\ result.file # FileAbsent
  /\ result.call.kind = "return"
  /\ result.call.creds = FromEnv(result.env)

\* C23: a malformed GOOGLE_TOKEN_JSON does not fail the call; the outcome is
\* one the same call has with GOOGLE_TOKEN_JSON unset.
C23_MalformedEnvSkipped ==
  (Called /\ result.env = EnvMalformed) =>
     \E p \in RefreshAnswers :
        result.call = get_credentials(EnvUnset, result.file, result.at, p)

\* A malformed environment token and a valid token file: the file's
\* credential is returned.
C23_Witness ==
  /\ Called
  /\ result.env = EnvMalformed
  /\ result.file.kind = "json"
  /\ result.call.kind = "return"
  /\ result.call.creds = FileCreds(result)

\* The last invocation was a slide tool that obtained the presentation.
SlideCall ==
  /\ result.kind = "slides"
  /\ result.call.kind = "return"
  /\ requests # << >>
  /\ result.returned.body # HttpErrorMessage

\* slide_index denotes an existing slide of a presentation of n slides.
Denotes(slide_index, n) == slide_index >= 0 /\ slide_index < n

BatchUpdateSent == \E r \in Range(requests) : r.method = "presentations.batchUpdate"

\* C24: add_text_to_slide and delete_slide, given a slide_index that denotes
\* no slide of the presentation they fetched (0-based, the empty presentation
\* included), return the out-of-range text with the index and the number of
\* slides, send no batchUpdate and leave the presentation as it was.
C24_OutOfRangeRejected ==
  (SlideCall /\ ~Denotes(result.index, Len(result.before))) =>
     /\ result.returned = OutOfRangeText(result.index, Len(result.before))
     /\ ~BatchUpdateSent
     /\ slides = result.before

\* The last invocation was an export tool.
ExportCall == result.kind = "export"

Supported(tool, format) == format \in Range(UseList(tool))

\* The export call of the last invocation used the MIME type of its format.
ExportedAs(tool, format) ==
  /\ Len(requests) = 1
  /\ requests[1].method = "files.export"
  /\ requests[1].mimeType = mime_map(tool)[format]

\* C25 as stated: an export tool given a format outside its supported set
\* returns the Unsupported format text listing the supported formats and
\* calls no export; given a supported format, its export call uses the MIME
\* type mapped to that format.
C25_AsStated ==
  ExportCall =>
    IF Supported(result.tool, result.format)
      THEN requests # << >> => ExportedAs(result.tool, result.format)
      ELSE /\ result.returned = UnsupportedText(result.tool, result.format)
           /\ requests = << >>

\* C25 amended: a format outside the supported set never leads to an export
\* call, and is answered with the Unsupported format text whenever
\* get_credentials returned a credential; a supported format is exported with
\* the MIME type mapped to it.
C25_UnsupportedFormatRejected ==
  ExportCall =>
    IF Supported(result.tool, result.format)
      THEN /\ requests # << >> => ExportedAs(result.tool, result.format)
           /\ result.call.kind = "return" => requests # << >>
      ELSE /\ requests = << >>
           /\ result.call.kind = "return" =>
                /\ result.returned = UnsupportedText(result.tool, result.format)
                /\ Range(result.returned.body.use) = DOMAIN mime_map(result.tool)

\* export_presentation refused a format that export_document supports.
C25_Witness ==
  /\ ExportCall
  /\ result.tool = "export_presentation"
  /\ result.format = "docx"
  /\ result.call.kind = "return"
  /\ result.returned = UnsupportedText("export_presentation", "docx")
  /\ requests = << >>

\* The texts of JsonTexts that are no JSON.
NotJson ==
  { << >>, << "[", "[", "1", "]" >>, << "[", "1", ",", "]" >>, << "]" >>,
    << "[", "1", "]", "1" >> }

\* The last invocation was a Sheets write tool given a text that is no JSON.
InvalidJsonCall == result.kind = "sheets" /\ result.values \in NotJson

\* C26 as stated: update_spreadsheet, append_to_spreadsheet and
\* batch_update_spreadsheet, given an argument that is no JSON, return the
\* Invalid JSON text and send no write.
C26_AsStated ==
  InvalidJsonCall =>
    /\ result.returned = Text("", InvalidJsonMessage(result.tool))
    /\ requests = << >>

\* C26 amended: given an argument that is no JSON the three tools send no
\* write, and return the Invalid JSON text whenever get_credentials returned
\* a credential.
C26_InvalidJsonRejected ==
  InvalidJsonCall =>
    /\ requests = << >>
    /\ result.call.kind = "return" =>
         result.returned = Text("", InvalidJsonMessage(result.tool))

\* batch_update_spreadsheet, authenticated, refused text with something after
\* the JSON value.
C26_Witness ==
  /\ InvalidJsonCall
  /\ result.tool = "batch_update_spreadsheet"
  /\ result.values = << "[", "1", "]", "1" >>
  /\ result.call.kind = "return"
  /\ result.returned = Text("", InvalidJsonMessage("batch_update_spreadsheet"))
  /\ requests = << >>

\* The call that starts finds no credential, or one that is not valid and
\* not refreshable (not expired, or without a refresh token).
NoUsableCredential ==
  LET creds == Resolved(envToken, tokenFile, now) IN
  \/ creds = NoCreds
  \/ ~Valid(creds, now) /\ ~(Expired(creds, now) /\ creds.refresh_token # None)

\* C27: in the interactive variant a call that finds no credential, or one
\* that is not valid and not refreshable, starts the interactive flow when a
\* client identity is available, and a flow that completes writes the
\* obtained credential to the token file before the call returns it; with no
\* client identity the call raises the missing-credentials error, with no
\* flow started and the token file not written.  A call never returns a
\* credential it found unusable.
C27_InteractiveFlow ==
  [][ /\ (InteractiveCall /\ NoUsableCredential) =>
           IF clientConfig = "missing"
             THEN /\ result'.call.kind = "FileNotFoundError"
                  /\ flows' = flows
                  /\ tokenFile' = tokenFile
                  /\ toolPc' = "idle"
             ELSE /\ toolPc' = "run_local_server"
                  /\ Len(flows') = Len(flows) + 1
                  /\ flows'[Len(flows')].state = "Created"
                  /\ tokenFile' = tokenFile
      /\ (RunLocalServer /\ result'.call.kind = "return") =>
           /\ flows'[result.flow].state = "Exchanged"
           /\ result'.call.creds = flows'[result.flow].credentials
           /\ tokenFile'.kind = "json"
           /\ FromAuthorizedUserInfo(tokenFile'.info, SCOPES) = result'.call.creds
      /\ (RunLocalServer /\ result'.call.kind # "return") =>
           tokenFile' = tokenFile ]_vars

\* A token file that held an unusable credential, replaced by the credential
\* the flow obtained.
C27_Witness ==
  /\ Called
  /\ toolPc = "idle"
  /\ result.flow > 0
  /\ result.call.kind = "return"
  /\ result.file.kind = "json"
  /\ tokenFile # result.file
  /\ FromAuthorizedUserInfo(tokenFile.info, SCOPES) = result.call.creds

\* The credential call r loaded, before any refresh.
Loaded(r) == IF r.call.source = "file" THEN FileCreds(r) ELSE FromEnv(r.env)

\* Call r loaded a credential (from a readable source).
LoadedCredential(r) ==
  /\ r.kind = "called"
  /\ r.call.source # "none"
  /\ r.call.source = "file" => r.file.kind = "json"

\* C28: the refresher is invoked only for a loaded credential that is expired
\* and carries a refresh token; a credential that is not valid and not
\* expired is reported as not authenticated with no refresh attempt.
C28_RefreshOnlyWhenExpired ==
  /\ (Called /\ result.call.refreshed) =>
        /\ LoadedCredential(result)
        /\ Expired(Loaded(result), result.at)
        /\ Loaded(result).refresh_token # None
  /\ (/\ LoadedCredential(result)
      /\ ~Valid(Loaded(result), result.at)
      /\ ~Expired(Loaded(result), result.at)) =>
        /\ result.call.kind = "RuntimeError"
        /\ result.call.message = NotAuthenticatedMessage
        /\ ~result.call.refreshed

\* A stored record with a refresh token, no access token and no expiry.
C28_Witness ==
  /\ LoadedCredential(result)
  /\ result.call.source = "file"
  /\ result.file.info.token = None
  /\ result.file.info.refresh_token # None
  /\ result.file.info.expiry = NoExpiry
  /\ result.call.kind = "RuntimeError"
  /\ ~result.call.refreshed

\* C29: a tool's get_credentials writes neither the token file nor the
\* pending-flow slot on any path and its outcome does not depend on the slot;
\* only the steps of a /callback whose exchange succeeded change the token
\* file, only /login changes the slot; a tool call is possible in every
\* state, whatever the portal is doing.
C29_ResolverFrame ==
  /\ [][ /\ (result' # result /\ ToolInvoke) =>
              /\ tokenFile' = tokenFile
              /\ pending_flow' = pending_flow
              /\ flows' = flows
              /\ portalPc' = portalPc
              /\ \E p \in RefreshAnswers :
                   result'.call = get_credentials(envToken, tokenFile, now, p)
         /\ tokenFile' # tokenFile =>
              /\ (\E q \in Queries : Callback(q)) \/ CallbackWrite
              /\ response'.path = "/callback"
              /\ response'.fetched = pending_flow
              /\ flows'[pending_flow].state = "Exchanged"
         /\ pending_flow' # pending_flow => Login ]_vars
  /\ [](ENABLED ToolInvoke)

\* A call whose refresh was rejected, made while a flow is pending: the file
\* and the slot are as before.
C29_Witness ==
  /\ Called
  /\ result.call.kind = "RefreshError"
  /\ result.file = tokenFile
  /\ pending_flow > 0
  /\ flows[pending_flow].state = "URLIssued"

\* The exchange of the last /callback was attempted and rejected.
ExchangeRejected(r) ==
  r.path = "/callback" /\ r.status = 500 /\ r.fetched # 0

\* C30: a /callback with a code whose exchange the provider rejects answers
\* the 500 page and leaves the token file as it was; a valid credential
\* stored before is still what get_credentials returns afterwards.
C30_RejectedExchangeKeepsFile ==
  [][ /\ \A q \in Queries :
           (response' # response /\ ExchangeRejected(response') /\ Callback(q)) =>
              /\ HasCode(q)
              /\ ErrorResponse(response')
              /\ response'.link = "/login"
              /\ tokenFile' = tokenFile
              /\ flows' = flows
              /\ portalPc' = "idle"
      /\ (/\ ExchangeRejected(response)
          /\ FileValid([ kind |-> "called", file |-> tokenFile, at |-> now ])
          /\ envToken.kind # "json"
          /\ ToolCall) =>
              /\ result'.call.kind = "return"
              /\ result'.call.creds = FromAuthorizedUserInfo(tokenFile.info, SCOPES)
              /\ ~result'.call.refreshed ]_vars

\* After a rejected exchange a call returned the credential a first,
\* successful /callback had stored.
C30_Witness ==
  /\ ExchangeRejected(response)
  /\ Called
  /\ result.file = tokenFile
  /\ result.at = now
  /\ result.call.kind = "return"
  /\ result.call.creds = flows[response.fetched].credentials
  /\ result.call.creds = FileCreds(result)

====
